---- MODULE Spec2Model ----
(***************************************************************************)
(* book-heaven-server: an Express application over one MongoDB collection, *)
(* "books", with Firebase ID-token verification in front of the protected  *)
(* routes (src/index.js).                                                  *)
(*                                                                         *)
(* Documents, request bodies and decoded tokens are functions from field   *)
(* names to values; a field that is not set is not in the DOMAIN.          *)
(***************************************************************************)
EXTENDS Integers, FiniteSets, Sequences, Bags, TLC

VARIABLES
    db,        \* the module-level handle `let db`: "connected" or "undefined"
    books,     \* the collection "books": _id -> document
    nextId,    \* the next _id the storage layer hands out
    creator,   \* history: _id -> verified email of the caller whose add-book inserted it
    inflight,  \* requests that passed verifyToken and await their storage call
    served     \* the request being answered: what arrived, what the server did, its response

vars == <<db, books, nextId, creator, inflight, served>>

----------------------------------------------------------------------------
(* Bounds *)

MaxBooks == 2      \* documents ever inserted
MaxInflight == 2   \* requests awaiting storage at the same time

----------------------------------------------------------------------------
(* Values *)

EmptyDoc == [k \in {} |-> ""]

Merge(base, over) ==
    [k \in (DOMAIN base) \cup (DOMAIN over) |->
        IF k \in DOMAIN over THEN over[k] ELSE base[k]]

\* Firebase ID tokens and what admin.auth().verifyIdToken decodes them to.
\* The second account has no display name.
DecodedTokens ==
    [ t1 |-> [email |-> "u1@x.com", name |-> "Alice"],
      t2 |-> [email |-> "u2@x.com"] ]

ValidTokens == DOMAIN DecodedTokens

Users == {DecodedTokens[t] : t \in ValidTokens}

\* Authorization headers, as the words authHeader.split(" ") yields;
\* <<>> is a request without the header.
Headers ==
    { <<>>, <<"Basic", "t1">>, <<"Bearer", "t1">>, <<"Bearer", "t2">>,
      <<"Bearer", "bad">> }

\* req.params.id: a string that new ObjectId() accepts (wellFormed, naming
\* the ObjectId oid) or rejects.
MalformedId == [wellFormed |-> FALSE, oid |-> 0]

IdParams ==
    {[wellFormed |-> TRUE, oid |-> i] : i \in 1..(MaxBooks + 1)} \cup {MalformedId}

NoId == [wellFormed |-> FALSE, oid |-> -1]

\* req.body
Bodies ==
    { [title |-> "A", author |-> "B"],
      [title |-> "C", userEmail |-> "u2@x.com", userName |-> "Mallory"] }

ServerTime == "new Date()"

ProtectedRoutes ==
    {"add-book", "book-details", "myBooks", "update-book", "delete-book"}

IdRoutes == {"book-details", "update-book", "delete-book"}

----------------------------------------------------------------------------
(* verifyToken middleware *)

\* authHeader.startsWith("Bearer "): the first word is "Bearer" and a space
\* follows it, so split(" ") yields a second word.
StartsWithBearer(authHeader) ==
    Len(authHeader) >= 2 /\ authHeader[1] = "Bearer"

\* admin.auth().verifyIdToken(idToken): rejects when the provider cannot be
\* reached or the token is not one it issued.
VerifyIdToken(idToken, idpUp) ==
    IF idpUp /\ idToken \in ValidTokens
    THEN [rejected |-> FALSE, decodedToken |-> DecodedTokens[idToken]]
    ELSE [rejected |-> TRUE, decodedToken |-> EmptyDoc]

\* Variant: only the header's presence is tested, not its "Bearer " prefix.
verifyTokenAnyScheme(authHeader, idpUp) ==
    IF authHeader = <<>> \/ Len(authHeader) < 2
    THEN [next |-> FALSE, status |-> 401,
          json |-> [message |-> "Unauthorized: No token provided"],
          user |-> EmptyDoc, idpCalled |-> FALSE]
    ELSE LET res == VerifyIdToken(authHeader[2], idpUp)
         IN IF res.rejected
            THEN [next |-> FALSE, status |-> 401,
                  json |-> [message |-> "Unauthorized: Invalid token"],
                  user |-> EmptyDoc, idpCalled |-> TRUE]
            ELSE [next |-> TRUE, status |-> 0, json |-> EmptyDoc,
                  user |-> res.decodedToken, idpCalled |-> TRUE]

verifyToken(authHeader, idpUp) ==
    IF authHeader = <<>> \/ ~StartsWithBearer(authHeader)
    THEN [next |-> FALSE, status |-> 401,
          json |-> [message |-> "Unauthorized: No token provided"],
          user |-> EmptyDoc, idpCalled |-> FALSE]
    ELSE LET idToken == authHeader[2]
             res == VerifyIdToken(idToken, idpUp)
         IN IF res.rejected
            THEN [next |-> FALSE, status |-> 401,
                  json |-> [message |-> "Unauthorized: Invalid token"],
                  user |-> EmptyDoc, idpCalled |-> TRUE]
            ELSE [next |-> TRUE, status |-> 0, json |-> EmptyDoc,
                  user |-> res.decodedToken, idpCalled |-> TRUE]

\* A public route has no middleware in front of its handler.
NoMiddleware ==
    [next |-> TRUE, status |-> 0, json |-> EmptyDoc, user |-> EmptyDoc,
     idpCalled |-> FALSE]

----------------------------------------------------------------------------
(* The storage layer: collection operations on _id -> document *)

\* A query filter is a document; its _id entry is compared with the key.
Matches(id, doc, filter) ==
    \A k \in DOMAIN filter :
        IF k = "_id" THEN filter[k] = id
        ELSE k \in DOMAIN doc /\ doc[k] = filter[k]

Matching(coll, filter) == {id \in DOMAIN coll : Matches(id, coll[id], filter)}

First(ids) == CHOOSE i \in ids : \A j \in ids : i <= j

Find(coll, filter) == [id \in Matching(coll, filter) |-> coll[id]]

\* findOne: the first matching document, or none (null).
FindOne(coll, filter) ==
    LET m == Matching(coll, filter)
    IN IF m = {} THEN EmptyDoc ELSE [id \in {First(m)} |-> coll[id]]

InsertOne(coll, doc, id) ==
    [insertedId |-> id,
     coll |-> [i \in (DOMAIN coll) \cup {id} |-> IF i = id THEN doc ELSE coll[i]]]

\* Variant: the matched document is replaced by the fields (replaceOne).
UpdateOneReplace(coll, filter, fields) ==
    LET m == Matching(coll, filter)
    IN IF m = {} THEN [matchedCount |-> 0, coll |-> coll]
       ELSE [matchedCount |-> 1, coll |-> [coll EXCEPT ![First(m)] = fields]]

\* updateOne(filter, {$set: fields}): merges fields into the first match.
UpdateOne(coll, filter, fields) ==
    LET m == Matching(coll, filter)
    IN IF m = {} THEN [matchedCount |-> 0, coll |-> coll]
       ELSE [matchedCount |-> 1,
             coll |-> [coll EXCEPT ![First(m)] = Merge(coll[First(m)], fields)]]

DeleteOne(coll, filter) ==
    LET m == Matching(coll, filter)
    IN IF m = {} THEN [deletedCount |-> 0, coll |-> coll]
       ELSE [deletedCount |-> 1,
             coll |-> [i \in (DOMAIN coll) \ {First(m)} |-> coll[i]]]

----------------------------------------------------------------------------
(* Route handlers: the try block, then the catch *)

\* res.status(status).json(json), with the documents or the insertedId sent;
\* coll is the collection after the handler's storage call, calls the number
\* of storage calls issued.
Sent(status, json, docs, bookId, coll, calls) ==
    [threw |-> FALSE, error |-> "", status |-> status, json |-> json,
     docs |-> docs, bookId |-> bookId, coll |-> coll, calls |-> calls]

\* An exception raised in the try block; the collection is as it was.
Thrown(error, coll, calls) ==
    [threw |-> TRUE, error |-> error, status |-> 0, json |-> EmptyDoc,
     docs |-> EmptyDoc, bookId |-> 0, coll |-> coll, calls |-> calls]

\* Variant: no catch; the exception leaves the handler.
CatchNothing(out) == out

\* catch (err) { res.status(500).json({ error: err.message }) }
Catch(out) ==
    IF out.threw
    THEN [out EXCEPT !.threw = FALSE, !.status = 500,
                     !.json = [error |-> out.error]]
    ELSE out

TypeErrorDb == "Cannot read properties of undefined (reading 'collection')"
BSONError == "input must be a 24 character hex string"
StorageError == "storage call rejected"

\* req.user.name || req.user.email
UserName(user) == IF "name" \in DOMAIN user THEN user["name"] ELSE user["email"]

\* Variant: the body is spread last, over the identity fields.
NewBookBodyLast(user, body) ==
    Merge([userEmail |-> user["email"], userName |-> UserName(user),
           createdAt |-> ServerTime], body)

NewBook(user, body) ==
    Merge(body, [userEmail |-> user["email"], userName |-> UserName(user),
                 createdAt |-> ServerTime])

TryAddBook(user, body, storageUp, handle, coll, newId) ==
    LET book == NewBook(user, body)
    IN IF handle = "undefined" THEN Thrown(TypeErrorDb, coll, 0)
       ELSE IF ~storageUp THEN Thrown(StorageError, coll, 1)
       ELSE LET result == InsertOne(coll, book, newId)
            IN Sent(200, [message |-> "Book added successfully"], EmptyDoc,
                    result.insertedId, result.coll, 1)

TryAllBooks(storageUp, handle, coll) ==
    IF handle = "undefined" THEN Thrown(TypeErrorDb, coll, 0)
    ELSE IF ~storageUp THEN Thrown(StorageError, coll, 1)
    ELSE Sent(200, EmptyDoc, Find(coll, EmptyDoc), 0, coll, 1)

\* Variant: the filter names the document only.
OwnerFilterIdOnly(id, user) == [_id |-> id.oid]

\* { _id: new ObjectId(req.params.id), userEmail: req.user.email }
OwnerFilter(id, user) == [_id |-> id.oid, userEmail |-> user["email"]]

\* Variant: book-details scoped to the caller like the mutations.
DetailsFilterOwned(id, user) == OwnerFilter(id, user)

\* { _id: new ObjectId(req.params.id) }: the caller is no part of the filter.
DetailsFilter(id, user) == [_id |-> id.oid]

\* db.collection("books") is evaluated before the argument new ObjectId(id).
TryBookDetails(user, id, storageUp, handle, coll) ==
    IF handle = "undefined" THEN Thrown(TypeErrorDb, coll, 0)
    ELSE IF ~id.wellFormed THEN Thrown(BSONError, coll, 0)
    ELSE IF ~storageUp THEN Thrown(StorageError, coll, 1)
    ELSE LET book == FindOne(coll, DetailsFilter(id, user))
         IN IF book = EmptyDoc
            THEN Sent(404, [message |-> "Book not found"], EmptyDoc, 0, coll, 1)
            ELSE Sent(200, EmptyDoc, book, 0, coll, 1)

\* Variant: find() without a filter.
MyBooksFilterNone(user) == EmptyDoc

MyBooksFilter(user) == [userEmail |-> user["email"]]

TryMyBooks(user, storageUp, handle, coll) ==
    IF handle = "undefined" THEN Thrown(TypeErrorDb, coll, 0)
    ELSE IF ~storageUp THEN Thrown(StorageError, coll, 1)
    ELSE Sent(200, EmptyDoc, Find(coll, MyBooksFilter(user)), 0, coll, 1)

\* Variant: the document is read by _id first and ownership tested in the
\* handler, with a response of its own for somebody else's document.
TryUpdateBookReadThenCheck(user, id, body, storageUp, handle, coll) ==
    IF ~id.wellFormed THEN Thrown(BSONError, coll, 0)
    ELSE IF handle = "undefined" THEN Thrown(TypeErrorDb, coll, 0)
    ELSE IF ~storageUp THEN Thrown(StorageError, coll, 1)
    ELSE LET book == FindOne(coll, [_id |-> id.oid])
         IN IF book = EmptyDoc
            THEN Sent(404, [message |-> "Book not found or unauthorized"],
                      EmptyDoc, 0, coll, 1)
            ELSE IF book[id.oid]["userEmail"] # user["email"]
            THEN Sent(403, [message |-> "Forbidden"], EmptyDoc, 0, coll, 1)
            ELSE Sent(200, [message |-> "Book updated successfully"], EmptyDoc,
                      0, UpdateOne(coll, [_id |-> id.oid], body).coll, 2)

\* The filter is built, and new ObjectId(id) evaluated, before db is read.
TryUpdateBook(user, id, body, storageUp, handle, coll) ==
    IF ~id.wellFormed THEN Thrown(BSONError, coll, 0)
    ELSE IF handle = "undefined" THEN Thrown(TypeErrorDb, coll, 0)
    ELSE IF ~storageUp THEN Thrown(StorageError, coll, 1)
    ELSE LET result == UpdateOne(coll, OwnerFilter(id, user), body)
         IN IF result.matchedCount = 0
            THEN Sent(404, [message |-> "Book not found or unauthorized"],
                      EmptyDoc, 0, result.coll, 1)
            ELSE Sent(200, [message |-> "Book updated successfully"],
                      EmptyDoc, 0, result.coll, 1)

\* Variant: deleteOne by _id alone.
TryDeleteBookAnyOwner(user, id, storageUp, handle, coll) ==
    IF ~id.wellFormed THEN Thrown(BSONError, coll, 0)
    ELSE IF handle = "undefined" THEN Thrown(TypeErrorDb, coll, 0)
    ELSE IF ~storageUp THEN Thrown(StorageError, coll, 1)
    ELSE LET result == DeleteOne(coll, [_id |-> id.oid])
         IN IF result.deletedCount = 0
            THEN Sent(404, [message |-> "Book not found or unauthorized"],
                      EmptyDoc, 0, result.coll, 1)
            ELSE Sent(200, [message |-> "Book deleted successfully"],
                      EmptyDoc, 0, result.coll, 1)

TryDeleteBook(user, id, storageUp, handle, coll) ==
    IF ~id.wellFormed THEN Thrown(BSONError, coll, 0)
    ELSE IF handle = "undefined" THEN Thrown(TypeErrorDb, coll, 0)
    ELSE IF ~storageUp THEN Thrown(StorageError, coll, 1)
    ELSE LET result == DeleteOne(coll, OwnerFilter(id, user))
         IN IF result.deletedCount = 0
            THEN Sent(404, [message |-> "Book not found or unauthorized"],
                      EmptyDoc, 0, result.coll, 1)
            ELSE Sent(200, [message |-> "Book deleted successfully"],
                      EmptyDoc, 0, result.coll, 1)

\* The handler registered for a route: try { ... } catch (err) { ... }.
Handler(route, user, id, body, storageUp, handle, coll, newId) ==
    Catch(CASE route = "add-book" -> TryAddBook(user, body, storageUp, handle, coll, newId)
            [] route = "all-books" -> TryAllBooks(storageUp, handle, coll)
            [] route = "book-details" -> TryBookDetails(user, id, storageUp, handle, coll)
            [] route = "myBooks" -> TryMyBooks(user, storageUp, handle, coll)
            [] route = "update-book" -> TryUpdateBook(user, id, body, storageUp, handle, coll)
            [] route = "delete-book" -> TryDeleteBook(user, id, storageUp, handle, coll))

----------------------------------------------------------------------------
(* Startup *)

\* await connectDB(): a failed client.connect() is logged and db stays unset.
connectDB(connected) == IF connected THEN "connected" ELSE "undefined"

NoRequest ==
    [route |-> "none", header |-> <<>>, id |-> NoId, body |-> EmptyDoc,
     user |-> EmptyDoc, idpCalled |-> FALSE, handlerRan |-> FALSE,
     storageUp |-> TRUE, storageCalls |-> 0, unhandled |-> FALSE,
     status |-> 0, json |-> EmptyDoc, docs |-> EmptyDoc, bookId |-> 0,
     before |-> EmptyDoc]

\* The database "bookHeaven" outlives the process: at startup the collection
\* is empty or holds a book an earlier run's add-book stored.
Stored ==
    { EmptyDoc,
      [i \in {1} |-> NewBook(DecodedTokens["t1"], [title |-> "A", author |-> "B"])] }

Init ==
    /\ \E connected \in BOOLEAN : db = connectDB(connected)
    /\ books \in Stored
    /\ nextId = Cardinality(DOMAIN books) + 1
    /\ creator = [i \in DOMAIN books |-> books[i]["userEmail"]]
    /\ inflight = EmptyBag
    /\ served = NoRequest

----------------------------------------------------------------------------
(* One request served from arrival to response.  A handler makes a single  *)
(* storage call and touches nothing else that is shared, so a request is   *)
(* one step here; `served` keeps it, with the collection as it was, until  *)
(* the response has gone out.                                              *)

\* The middleware's own response: the handler does not run.
Refused(route, header, id, body, auth) ==
    [route |-> route, header |-> header, id |-> id, body |-> body,
     user |-> EmptyDoc, idpCalled |-> auth.idpCalled, handlerRan |-> FALSE,
     storageUp |-> TRUE, storageCalls |-> 0, unhandled |-> FALSE,
     status |-> auth.status, json |-> auth.json, docs |-> EmptyDoc,
     bookId |-> 0, before |-> books]

Handled(route, header, id, body, auth, storageUp, out) ==
    [route |-> route, header |-> header, id |-> id, body |-> body,
     user |-> auth.user, idpCalled |-> auth.idpCalled, handlerRan |-> TRUE,
     storageUp |-> storageUp, storageCalls |-> out.calls,
     unhandled |-> out.threw, status |-> out.status, json |-> out.json,
     docs |-> out.docs, bookId |-> out.bookId, before |-> books]

\* What a handler's storage call leaves behind.
Apply(route, user, out) ==
    /\ books' = out.coll
    /\ IF route = "add-book" /\ out.bookId # 0
       THEN /\ nextId' = nextId + 1
            /\ creator' = [i \in (DOMAIN creator) \cup {out.bookId} |->
                              IF i = out.bookId THEN user["email"] ELSE creator[i]]
       ELSE UNCHANGED <<nextId, creator>>

Serve(route, header, id, body, idpUp, storageUp) ==
    LET auth == IF route \in ProtectedRoutes
                THEN verifyToken(header, idpUp) ELSE NoMiddleware
        out == Handler(route, auth.user, id, body, storageUp, db, books, nextId)
    IN /\ IF auth.next
          THEN /\ served' = Handled(route, header, id, body, auth, storageUp, out)
               /\ Apply(route, auth.user, out)
          ELSE /\ served' = Refused(route, header, id, body, auth)
               /\ UNCHANGED <<books, nextId, creator>>
       /\ UNCHANGED <<db, inflight>>

AddBook(header, body, idpUp, storageUp) ==
    /\ served = NoRequest
    /\ nextId <= MaxBooks
    /\ Serve("add-book", header, NoId, body, idpUp, storageUp)

AllBooks(header, storageUp) ==
    /\ served = NoRequest
    /\ Serve("all-books", header, NoId, EmptyDoc, TRUE, storageUp)

BookDetails(header, id, idpUp, storageUp) ==
    /\ served = NoRequest
    /\ Serve("book-details", header, id, EmptyDoc, idpUp, storageUp)

MyBooks(header, idpUp, storageUp) ==
    /\ served = NoRequest
    /\ Serve("myBooks", header, NoId, EmptyDoc, idpUp, storageUp)

UpdateBook(header, id, body, idpUp, storageUp) ==
    /\ served = NoRequest
    /\ Serve("update-book", header, id, body, idpUp, storageUp)

DeleteBook(header, id, idpUp, storageUp) ==
    /\ served = NoRequest
    /\ Serve("delete-book", header, id, EmptyDoc, idpUp, storageUp)

\* The response has gone out; the request is over.
Respond ==
    /\ served # NoRequest
    /\ served' = NoRequest
    /\ UNCHANGED <<db, books, nextId, creator, inflight>>

Next ==
    \/ \E h \in Headers, b \in Bodies, i, s \in BOOLEAN : AddBook(h, b, i, s)
    \/ \E h \in Headers, s \in BOOLEAN : AllBooks(h, s)
    \/ \E h \in Headers, id \in IdParams, i, s \in BOOLEAN : BookDetails(h, id, i, s)
    \/ \E h \in Headers, i, s \in BOOLEAN : MyBooks(h, i, s)
    \/ \E h \in Headers, id \in IdParams, b \in Bodies, i, s \in BOOLEAN :
          UpdateBook(h, id, b, i, s)
    \/ \E h \in Headers, id \in IdParams, i, s \in BOOLEAN : DeleteBook(h, id, i, s)
    \/ Respond

Spec == Init /\ [][Next]_vars

----------------------------------------------------------------------------
(* Requests in flight together: the await between verifyToken and the      *)
(* handler's storage call lets other requests run.  The storage layer      *)
(* applies each call in one step; responses are not kept here.             *)

PendingAdds ==
    LET adds == {r \in BagToSet(inflight) : r.route = "add-book"}
    IN BagCardinality([r \in adds |-> inflight[r]])

\* verifyToken calls next(): the request now has req.user.
Begin(route, header, id, body, idpUp) ==
    LET auth == verifyToken(header, idpUp)
        req == [route |-> route, user |-> auth.user, id |-> id, body |-> body]
    IN /\ BagCardinality(inflight) < MaxInflight
       /\ route \in ProtectedRoutes
       /\ auth.next
       /\ route = "add-book" => nextId + PendingAdds <= MaxBooks
       /\ inflight' = inflight (+) SetToBag({req})
       /\ UNCHANGED <<db, books, nextId, creator, served>>

\* The handler of a request in flight runs its storage call and responds.
Finish(req, storageUp) ==
    LET out == Handler(req.route, req.user, req.id, req.body, storageUp, db,
                       books, nextId)
    IN /\ BagIn(req, inflight)
       /\ inflight' = inflight (-) SetToBag({req})
       /\ Apply(req.route, req.user, out)
       /\ UNCHANGED <<db, served>>

Requests ==
    [route : {"add-book"}, id : {NoId}, body : Bodies]
    \cup [route : {"myBooks"}, id : {NoId}, body : {EmptyDoc}]
    \cup [route : {"book-details", "delete-book"}, id : IdParams, body : {EmptyDoc}]
    \cup [route : {"update-book"}, id : IdParams, body : Bodies]

NextInflight ==
    \/ \E q \in Requests, h \in Headers, i \in BOOLEAN :
          Begin(q.route, h, q.id, q.body, i)
    \/ \E req \in BagToSet(inflight), s \in BOOLEAN : Finish(req, s)

SpecInflight == Init /\ [][NextInflight]_vars

----------------------------------------------------------------------------
(* Properties.  Those of Spec read `served`: the request, the response and  *)
(* the collection as it was before the request (served.before); `books` is *)
(* the collection after it.                                                *)

Mutations == {"update-book", "delete-book"}

Caller == served.user["email"]

\* The request names a document that was in the collection when it arrived.
TargetExisted == served.id.wellFormed /\ served.id.oid \in DOMAIN served.before

OwnedBy(coll, email) == {i \in DOMAIN coll : coll[i]["userEmail"] = email}

NotFoundOrUnauthorized ==
    /\ served.status = 404
    /\ served.json = [message |-> "Book not found or unauthorized"]

InternalError == served.status = 500 /\ "error" \in DOMAIN served.json

\* C1: every stored book's userEmail is the verified email of the caller
\* whose add-book created it, whatever requests followed.
OwnerEmailImmutable ==
    \A id \in DOMAIN books : books[id]["userEmail"] = creator[id]

\* An update-book or delete-book by a verified caller on an existing document
\* whose userEmail is not the caller's.
ForeignMutation ==
    /\ served.handlerRan
    /\ served.route \in Mutations
    /\ TargetExisted
    /\ served.before[served.id.oid]["userEmail"] # Caller

\* C2 as stated: such a request is always answered 404 "Book not found or
\* unauthorized" and leaves the collection as it was.
ForeignMutationAlways404 ==
    ForeignMutation => NotFoundOrUnauthorized /\ books = served.before

\* The storage call of the request was made and did not fail.
StorageAnswered == served.storageUp /\ db = "connected"

\* C2 amended: such a request leaves the collection as it was and is
\* answered 404 "Book not found or unauthorized", or 500 with an error field
\* when the storage call fails or the storage handle was never set.
ForeignMutationRefused ==
    ForeignMutation =>
        /\ books = served.before
        /\ IF StorageAnswered THEN NotFoundOrUnauthorized ELSE InternalError

ForeignMutationSeen == ForeignMutation /\ NotFoundOrUnauthorized

\* C3: a request to a protected route without an Authorization header that
\* starts with "Bearer " is answered 401; the identity provider is not
\* called, the handler does not run, the storage layer is not called.
NoBearerIs401 ==
    (served.route \in ProtectedRoutes /\ ~StartsWithBearer(served.header)) =>
        /\ served.status = 401
        /\ ~served.idpCalled
        /\ ~served.handlerRan
        /\ served.storageCalls = 0
        /\ books = served.before

NoBearerSeen ==
    /\ served.route \in ProtectedRoutes
    /\ served.header = <<"Basic", "t1">>
    /\ served.status = 401

\* C4: the document add-book inserts has the decoded email as userEmail and
\* the decoded name, or the decoded email when there is no name, as userName,
\* whatever userEmail or userName the body carried.
AddBookIdentityFromToken ==
    (served.route = "add-book" /\ served.handlerRan /\ served.status = 200) =>
        /\ served.bookId \in (DOMAIN books) \ (DOMAIN served.before)
        /\ books[served.bookId]["userEmail"] = Caller
        /\ books[served.bookId]["userName"] =
              (IF "name" \in DOMAIN served.user THEN served.user["name"] ELSE Caller)

AddBookSpoofSeen ==
    /\ served.route = "add-book"
    /\ served.status = 200
    /\ "userEmail" \in DOMAIN served.body
    /\ served.body["userEmail"] # Caller
    /\ served.body["userName"] # books[served.bookId]["userName"]

OwnDocuments == [i \in OwnedBy(served.before, Caller) |-> served.before[i]]

\* C5 as stated: myBooks by a verified caller returns exactly the documents
\* whose userEmail is the caller's email.
MyBooksAlwaysExactlyOwn ==
    (served.route = "myBooks" /\ served.handlerRan) =>
        served.status = 200 /\ served.docs = OwnDocuments

\* C5 amended: myBooks by a verified caller returns exactly the documents
\* whose userEmail is the caller's email, unless the storage call fails or
\* the storage handle was never set; then the response is 500 with an error
\* field and returns no document.
MyBooksExactlyOwn ==
    (served.route = "myBooks" /\ served.handlerRan) =>
        IF StorageAnswered
        THEN served.status = 200 /\ served.docs = OwnDocuments
        ELSE InternalError /\ served.docs = EmptyDoc

MyBooksMixedSeen ==
    /\ served.route = "myBooks"
    /\ served.status = 200
    /\ OwnedBy(served.before, Caller) # {}
    /\ OwnedBy(served.before, Caller) # DOMAIN served.before

\* C6: a successful update-book changes, on the matched document, only the
\* fields its body names; the document's other fields and every other
\* document are as they were.
UpdateMerges ==
    (served.route = "update-book" /\ served.handlerRan /\ served.status = 200) =>
        LET id == served.id.oid
        IN /\ DOMAIN books = DOMAIN served.before
           /\ \A j \in (DOMAIN books) \ {id} : books[j] = served.before[j]
           /\ \A k \in (DOMAIN served.before[id]) \ (DOMAIN served.body) :
                 k \in DOMAIN books[id] /\ books[id][k] = served.before[id][k]
           /\ \A k \in DOMAIN served.body : books[id][k] = served.body[k]

UpdatePartialSeen ==
    /\ served.route = "update-book"
    /\ served.status = 200
    /\ "title" \in DOMAIN served.body
    /\ "author" \notin DOMAIN served.body
    /\ "author" \in DOMAIN served.before[served.id.oid]
    /\ Cardinality(DOMAIN served.before) = 2

\* What the caller sees of a handler's outcome.
Response(out) ==
    [status |-> out.status, json |-> out.json, docs |-> out.docs,
     bookId |-> out.bookId, unhandled |-> out.threw]

\* A well-formed id that names no document, or somebody else's.
Miss(id, email, coll) ==
    /\ id.wellFormed
    /\ id.oid \in DOMAIN coll => coll[id.oid]["userEmail"] # email

\* C7: the response update-book or delete-book gives a caller for a
\* well-formed id of no document is the response it gives the same caller
\* for the id of somebody else's document, and both leave the collection as
\* it is: the response served for either id is the one the handler has for
\* every other such id.
MissIndistinguishable ==
    (served.handlerRan /\ served.route \in Mutations
        /\ Miss(served.id, Caller, served.before)) =>
        /\ books = served.before
        /\ \A other \in IdParams :
              Miss(other, Caller, served.before) =>
                  LET o == Handler(served.route, served.user, other, served.body,
                                   served.storageUp, db, served.before, nextId)
                  IN /\ Response(o) =
                          [status |-> served.status, json |-> served.json,
                           docs |-> served.docs, bookId |-> served.bookId,
                           unhandled |-> served.unhandled]
                     /\ o.coll = served.before

\* Somebody else's document was the target while an id of no document exists.
MissBothSeen ==
    /\ ForeignMutation /\ served.status = 404
    /\ \E absent \in IdParams :
          absent.wellFormed /\ absent.oid \notin DOMAIN served.before

\* What makes a handler fail: an id new ObjectId() rejects, a storage call
\* that fails, a db handle that was never set.
HandlerFailure ==
    \/ served.route \in IdRoutes /\ ~served.id.wellFormed
    \/ ~served.storageUp
    \/ db = "undefined"

\* C8: a failure inside a route handler is caught there and answered 500
\* with an error field; none leaves the handler, and the collection is as it
\* was before the request.
HandlerFailureIs500 ==
    (served.handlerRan /\ HandlerFailure) =>
        /\ InternalError
        /\ ~served.unhandled
        /\ books = served.before

MalformedIdSeen ==
    /\ served.route = "book-details"
    /\ served.handlerRan
    /\ ~served.id.wellFormed
    /\ served.status = 500

\* C9 as stated: book-details by any verified caller on an id in the
\* collection returns that document; 404 "Book not found" comes only for an
\* id of no document.
DetailsAlwaysFound ==
    (served.route = "book-details" /\ served.handlerRan) =>
        /\ TargetExisted =>
              /\ served.status = 200
              /\ served.docs = [i \in {served.id.oid} |-> served.before[i]]
        /\ served.status = 404 =>
              served.json = [message |-> "Book not found"] /\ ~TargetExisted

\* C9 amended: book-details by any verified caller on an id in the
\* collection returns that document, whoever owns it, unless the storage
\* call fails or the storage handle was never set (500 with an error field);
\* 404 "Book not found" comes only for an id of no document.
DetailsFoundForAnyCaller ==
    (served.route = "book-details" /\ served.handlerRan) =>
        /\ TargetExisted =>
              IF StorageAnswered
              THEN /\ served.status = 200
                   /\ served.docs = [i \in {served.id.oid} |-> served.before[i]]
              ELSE InternalError /\ served.docs = EmptyDoc
        /\ served.status = 404 =>
              served.json = [message |-> "Book not found"] /\ ~TargetExisted

DetailsOfForeignSeen ==
    /\ served.route = "book-details"
    /\ served.status = 200
    /\ TargetExisted
    /\ served.before[served.id.oid]["userEmail"] # Caller

\* C10: with requests in flight together, a document is changed or removed
\* only by the storage call of an update-book or delete-book in flight for
\* that document whose caller's verified email is the document's userEmail
\* at that step.
MutationOnlyByCurrentOwner ==
    [][\A id \in DOMAIN books :
          (id \notin DOMAIN books' \/ books'[id] # books[id]) =>
              \E req \in BagToSet(inflight) :
                  /\ req.route \in Mutations
                  /\ req.id.wellFormed /\ req.id.oid = id
                  /\ req.user["email"] = books[id]["userEmail"]
                  /\ inflight' = inflight (-) SetToBag({req})]_vars

\* A mutation by the document's creator is in flight, next to another
\* request, while the document's userEmail is no longer the creator's.
StaleOwnerInflightSeen ==
    /\ BagCardinality(inflight) = MaxInflight
    /\ \E req \in BagToSet(inflight) :
          /\ req.route \in Mutations
          /\ req.id.wellFormed /\ req.id.oid \in DOMAIN books
          /\ creator[req.id.oid] = req.user["email"]
          /\ books[req.id.oid]["userEmail"] # req.user["email"]

====
